---- MODULE Spec2Model ----
(***************************************************************************)
(* Model of cssSelectorBuilder (src/src/05-objects-tasks.js, lines 118-212) *)
(*                                                                         *)
(* The program state is the set of builder objects that exist (a heap      *)
(* indexed by reference; reference 1 is the cssSelectorBuilder literal),   *)
(* together with the record of the most recent method call and its         *)
(* outcome.  Every method is an operator from (heap, receiver, arguments)  *)
(* to an outcome record: the heap after the call, the message of the Error *)
(* thrown ("" when the call returned), the reference returned and, for     *)
(* stringify, the string returned.                                         *)
(*                                                                         *)
(* A property of an object is Undefined (<<>>) or a string s (<<s>>).      *)
(* Only the seven data properties are modelled; the methods and the two    *)
(* error texts are copied unchanged by every spread and never assigned.    *)
(***************************************************************************)
EXTENDS Integers, Sequences, FiniteSets, TLC

\* Largest number of builder objects alive at once (the factory included).
MaxObjs == 3

\* Argument values of the fragment writes; the empty string is a string.
Values == {"", "a"}

\* Combinator tokens passed to combine: one legal CSS combinator, one not.
Combinators == {"+", "?"}

countErrText == "Element, id and pseudo-element should not occur more then one time inside the selector"

orderErrText == "Selector parts should be arranged in the following order: element, id, class, attribute, pseudo-class, pseudo-element"

Undefined == <<>>

\* JavaScript truthiness of a property that is undefined or a string.
Truthy(x) == x # Undefined /\ x[1] # ""

\* if (!obj.f) { obj.f = frag } else { obj.f += frag }
Assign(x, frag) == IF ~Truthy(x) THEN <<frag>> ELSE <<x[1] \o frag>>

\* The cssSelectorBuilder object literal: no data property is defined.
Factory ==
  [elVal |-> Undefined, idVal |-> Undefined, classVal |-> Undefined,
   attrVal |-> Undefined, pseudoCl |-> Undefined, pseudoEl |-> Undefined,
   value |-> Undefined]

\* throw new Error(text): the heap is left as it is, nothing is returned.
Throw(h, text) == [heap |-> h, threw |-> text, ret |-> 0, out |-> ""]

\* return obj
Return(h, ref) == [heap |-> h, threw |-> "", ret |-> ref, out |-> ""]

\* obj = this: the receiver itself instead of a copy.
spread_alias(h, this) == [heap |-> h, ref |-> this]

\* const obj = { ...this }: a new object with a copy of every property.
spread(h, this) == [heap |-> Append(h, h[this]), ref |-> Len(h) + 1]

element(h, this, value) ==
  IF Truthy(h[this].elVal) THEN Throw(h, countErrText)
  ELSE IF Truthy(h[this].idVal) THEN Throw(h, orderErrText)
  ELSE LET obj == spread(h, this)
       IN  Return([obj.heap EXCEPT ![obj.ref].elVal = Assign(@, value)], obj.ref)

\* id that forgets the pseudo-element in its order check.
id_classOnly(h, this, value) ==
  IF Truthy(h[this].idVal) THEN Throw(h, countErrText)
  ELSE IF Truthy(h[this].classVal) THEN Throw(h, orderErrText)
  ELSE LET obj == spread(h, this)
       IN  Return([obj.heap EXCEPT ![obj.ref].idVal = Assign(@, "#" \o value)], obj.ref)

id(h, this, value) ==
  IF Truthy(h[this].idVal) THEN Throw(h, countErrText)
  ELSE IF Truthy(h[this].classVal) \/ Truthy(h[this].pseudoEl)
       THEN Throw(h, orderErrText)
  ELSE LET obj == spread(h, this)
       IN  Return([obj.heap EXCEPT ![obj.ref].idVal = Assign(@, "#" \o value)], obj.ref)

class(h, this, value) ==
  IF Truthy(h[this].attrVal) THEN Throw(h, orderErrText)
  ELSE LET obj == spread(h, this)
       IN  Return([obj.heap EXCEPT ![obj.ref].classVal = Assign(@, "." \o value)], obj.ref)

attr(h, this, value) ==
  IF Truthy(h[this].pseudoCl) THEN Throw(h, orderErrText)
  ELSE LET obj == spread(h, this)
       IN  Return([obj.heap EXCEPT ![obj.ref].attrVal = Assign(@, "[" \o value \o "]")], obj.ref)

pseudoClass(h, this, value) ==
  IF Truthy(h[this].pseudoEl) THEN Throw(h, orderErrText)
  ELSE LET obj == spread(h, this)
       IN  Return([obj.heap EXCEPT ![obj.ref].pseudoCl = Assign(@, ":" \o value)], obj.ref)

\* pseudoElement that appends to the receiver before it validates.
pseudoElement_appendFirst(h, this, value) ==
  IF Truthy(h[this].pseudoEl)
  THEN Throw([h EXCEPT ![this].pseudoEl = Assign(@, "::" \o value)], countErrText)
  ELSE LET obj == spread(h, this)
       IN  Return([obj.heap EXCEPT ![obj.ref].pseudoEl = Assign(@, "::" \o value)], obj.ref)

pseudoElement(h, this, value) ==
  IF Truthy(h[this].pseudoEl) THEN Throw(h, countErrText)
  ELSE LET obj == spread(h, this)
       IN  Return([obj.heap EXCEPT ![obj.ref].pseudoEl = Assign(@, "::" \o value)], obj.ref)

\* res += this.f, guarded by if (this.f)
Part(x) == IF Truthy(x) THEN x[1] ELSE ""

\* stringify that emits the class fragments before the element.
stringify_classFirst(h, this) ==
  [heap |-> h, threw |-> "", ret |-> 0,
   out |-> IF Truthy(h[this].value) THEN h[this].value[1]
           ELSE Part(h[this].classVal) \o Part(h[this].elVal) \o Part(h[this].idVal)
                \o Part(h[this].attrVal) \o Part(h[this].pseudoCl) \o Part(h[this].pseudoEl)]

\* stringify that goes on to the fragments after the combined value.
stringify_valueAndFragments(h, this) ==
  [heap |-> h, threw |-> "", ret |-> 0,
   out |-> Part(h[this].value)
           \o Part(h[this].elVal) \o Part(h[this].idVal) \o Part(h[this].classVal)
           \o Part(h[this].attrVal) \o Part(h[this].pseudoCl) \o Part(h[this].pseudoEl)]

\* stringify that caches its result in this.value.
stringify_caching(h, this) ==
  LET res == IF Truthy(h[this].value) THEN h[this].value[1]
             ELSE Part(h[this].elVal) \o Part(h[this].idVal) \o Part(h[this].classVal)
                  \o Part(h[this].attrVal) \o Part(h[this].pseudoCl) \o Part(h[this].pseudoEl)
  IN  [heap |-> [h EXCEPT ![this].value = <<res>>], threw |-> "", ret |-> 0, out |-> res]

stringify(h, this) ==
  [heap |-> h, threw |-> "", ret |-> 0,
   out |-> IF Truthy(h[this].value) THEN h[this].value[1]
           ELSE Part(h[this].elVal) \o Part(h[this].idVal) \o Part(h[this].classVal)
                \o Part(h[this].attrVal) \o Part(h[this].pseudoCl) \o Part(h[this].pseudoEl)]

\* combine that rejects a token outside ' ', '+', '~', '>'.
combine_validating(h, this, selector1, combinator, selector2) ==
  IF combinator \notin {" ", "+", "~", ">"} THEN Throw(h, orderErrText)
  ELSE LET obj   == spread(h, this)
           s1    == stringify(obj.heap, selector1)
           s2    == stringify(s1.heap, selector2)
           value == s1.out \o " " \o combinator \o " " \o s2.out
       IN  Return([s2.heap EXCEPT ![obj.ref].value = Assign(@, value)], obj.ref)

\* combine that sets the value on the receiver instead of on a copy.
combine_onReceiver(h, this, selector1, combinator, selector2) ==
  LET s1    == stringify(h, selector1)
      s2    == stringify(s1.heap, selector2)
      value == s1.out \o " " \o combinator \o " " \o s2.out
  IN  Return([s2.heap EXCEPT ![this].value = Assign(@, value)], this)

combine(h, this, selector1, combinator, selector2) ==
  LET obj   == spread(h, this)
      s1    == stringify(obj.heap, selector1)
      s2    == stringify(s1.heap, selector2)
      value == s1.out \o " " \o combinator \o " " \o s2.out
  IN  Return([s2.heap EXCEPT ![obj.ref].value = Assign(@, value)], obj.ref)

VARIABLES heap, written, last

vars == <<heap, written, last>>

Refs == 1..Len(heap)

WriteOps == {"element", "id", "class", "attr", "pseudoClass", "pseudoElement"}

NoCall ==
  [op |-> "none", this |-> 0, selector1 |-> 0, combinator |-> "",
   selector2 |-> 0, threw |-> "", ret |-> 0, out |-> ""]

\* History of the successful calls of the chain that produced a builder.
Note(w, this, r, entry) ==
  IF r.threw # "" \/ r.ret = 0 THEN w
  ELSE IF r.ret > Len(w) THEN Append(w, Append(w[this], entry))
  ELSE [w EXCEPT ![r.ret] = Append(w[this], entry)]

Init ==
  /\ heap = <<Factory>>
  /\ written = << <<>> >>
  /\ last = NoCall

\* One call of a fragment write on an existing builder.  A call that throws
\* allocates nothing and is possible at any time; one that returns needs room.
Write(op, this, v, r) ==
  /\ Len(heap) < MaxObjs \/ r.threw # ""
  /\ heap' = r.heap
  /\ written' = Note(written, this, r, [cat |-> op, val |-> v])
  /\ last' = [NoCall EXCEPT !.op = op, !.this = this,
                            !.threw = r.threw, !.ret = r.ret]

CallElement == \E this \in Refs, v \in Values : Write("element", this, v, element(heap, this, v))

CallId == \E this \in Refs, v \in Values : Write("id", this, v, id(heap, this, v))

CallClass == \E this \in Refs, v \in Values : Write("class", this, v, class(heap, this, v))

CallAttr == \E this \in Refs, v \in Values : Write("attr", this, v, attr(heap, this, v))

CallPseudoClass == \E this \in Refs, v \in Values : Write("pseudoClass", this, v, pseudoClass(heap, this, v))

CallPseudoElement == \E this \in Refs, v \in Values : Write("pseudoElement", this, v, pseudoElement(heap, this, v))

\* One call of combine.  Its first statement allocates the copy of the
\* receiver, so it is called only while there is room for one more object.
CallCombine ==
  \E this \in Refs, s1 \in Refs, s2 \in Refs, t \in Combinators :
    LET r == combine(heap, this, s1, t, s2) IN
    /\ Len(heap) < MaxObjs
    /\ heap' = r.heap
    /\ written' = Note(written, this, r, [cat |-> "combine", val |-> t])
    /\ last' = [NoCall EXCEPT !.op = "combine", !.this = this, !.selector1 = s1,
                              !.combinator = t, !.selector2 = s2,
                              !.threw = r.threw, !.ret = r.ret]

\* One call of stringify on an existing builder.
CallStringify ==
  \E this \in Refs :
    LET r == stringify(heap, this) IN
    /\ heap' = r.heap
    /\ UNCHANGED written
    /\ last' = [NoCall EXCEPT !.op = "stringify", !.this = this,
                              !.threw = r.threw, !.out = r.out]

Next ==
  \/ CallElement
  \/ CallId
  \/ CallClass
  \/ CallAttr
  \/ CallPseudoClass
  \/ CallPseudoElement
  \/ CallCombine
  \/ CallStringify

Spec == Init /\ [][Next]_vars

TypeOK == Len(heap) <= MaxObjs /\ Len(written) = Len(heap)

(***************************************************************************)
(* Vocabulary of the properties, read off the history of successful calls. *)
(***************************************************************************)

SingleValued == {"element", "id", "pseudoElement"}

\* Position of a category in the order element < id < class < attribute <
\* pseudo-class < pseudo-element.
Rank(cat) ==
  CASE cat = "element" -> 1
    [] cat = "id" -> 2
    [] cat = "class" -> 3
    [] cat = "attr" -> 4
    [] cat = "pseudoClass" -> 5
    [] cat = "pseudoElement" -> 6
    [] OTHER -> 0

Cats(w) == {w[k].cat : k \in 1..Len(w)}

HasCombine(w) == "combine" \in Cats(w)

Count(w, cat) == Cardinality({k \in 1..Len(w) : w[k].cat = cat})

\* The text a written value contributes to the selector.
Frag(cat, v) ==
  CASE cat = "element" -> v
    [] cat = "id" -> "#" \o v
    [] cat = "class" -> "." \o v
    [] cat = "attr" -> "[" \o v \o "]"
    [] cat = "pseudoClass" -> ":" \o v
    [] cat = "pseudoElement" -> "::" \o v
    [] OTHER -> ""

RECURSIVE Join(_, _)
\* The fragments of one category, in the order they were written.
Join(w, cat) ==
  IF w = <<>> THEN ""
  ELSE (IF Head(w).cat = cat THEN Frag(cat, Head(w).val) ELSE "") \o Join(Tail(w), cat)

Render(w) ==
  Join(w, "element") \o Join(w, "id") \o Join(w, "class") \o Join(w, "attr")
  \o Join(w, "pseudoClass") \o Join(w, "pseudoElement")

\* The last call was a fragment write on a builder made by fragment writes only.
LastIsWrite == last.op \in WriteOps /\ ~HasCombine(written[last.this])

(***************************************************************************)
(* C1.  Ordering rule as claimed: a write to category C is rejected with    *)
(* the order error whenever a category later than C has already been       *)
(* written in the chain and C's own cardinality rule is not violated; so   *)
(* the categories written by a chain of successful writes never decrease.  *)
(* The code checks only some of the later categories: class("a") followed  *)
(* by element("a") returns a builder.                                      *)
(***************************************************************************)
LaterWritten(w, cat) == \E c \in Cats(w) : Rank(c) > Rank(cat)

NonDecreasing(w) ==
  \A j \in 1..Len(w), k \in 1..Len(w) : j < k => Rank(w[j].cat) <= Rank(w[k].cat)

C1_OrderRule ==
  /\ (/\ LastIsWrite
      /\ LaterWritten(written[last.this], last.op)
      /\ ~(last.op \in SingleValued /\ last.op \in Cats(written[last.this])))
     => last.threw = orderErrText
  /\ \A i \in Refs : ~HasCombine(written[i]) => NonDecreasing(written[i])

(***************************************************************************)
(* C2.  Cardinality rule as claimed: writing element, id or pseudoElement  *)
(* on a builder on which that category has already been written throws    *)
(* the cardinality error and returns no builder, whatever the two values;  *)
(* so no builder holds two fragments of such a category.  The code tests   *)
(* the truthiness of elVal: element("") followed by element("a") returns.  *)
(***************************************************************************)
C2_Cardinality ==
  /\ (last.op \in SingleValued /\ last.op \in Cats(written[last.this]))
     => (last.threw = countErrText /\ last.ret = 0)
  /\ \A i \in Refs : \A c \in SingleValued : Count(written[i], c) <= 1

(***************************************************************************)
(* C3.  Each listed out-of-order write throws the order error: element on  *)
(* a builder with an id and no element; id on a builder with a class or a  *)
(* pseudo-element and no id; class on a builder with an attribute; attr on *)
(* a builder with a pseudo-class; pseudoClass on a builder with a pseudo-  *)
(* element.  The other fragments of the builder do not matter.             *)
(***************************************************************************)
Listed(op, w) ==
  \/ op = "element" /\ "id" \in Cats(w) /\ "element" \notin Cats(w)
  \/ op = "id" /\ ("class" \in Cats(w) \/ "pseudoElement" \in Cats(w)) /\ "id" \notin Cats(w)
  \/ op = "class" /\ "attr" \in Cats(w)
  \/ op = "attr" /\ "pseudoClass" \in Cats(w)
  \/ op = "pseudoClass" /\ "pseudoElement" \in Cats(w)

C3_ListedOrderErrors ==
  (last.op \in WriteOps /\ Listed(last.op, written[last.this]))
    => (last.threw = orderErrText /\ last.ret = 0)

\* id was refused on a builder that carries a pseudo-element and one more fragment.
C3_Witness ==
  /\ last.op = "id"
  /\ last.threw = orderErrText
  /\ "pseudoElement" \in Cats(written[last.this])
  /\ "class" \notin Cats(written[last.this])
  /\ Len(written[last.this]) = 2

(***************************************************************************)
(* C4.  For a builder reached by successful fragment writes only,          *)
(* stringify() returns the element value, then "#"+id, then "."+c for each *)
(* class in the order written, then "["+a+"]" for each attribute, then     *)
(* ":"+p for each pseudo-class, then "::"+pseudo-element, with nothing in  *)
(* between, whatever the order in which the categories were written.       *)
(***************************************************************************)
C4_StringifyRenders ==
  \A i \in Refs : ~HasCombine(written[i]) => stringify(heap, i).out = Render(written[i])

\* A class written before the id is rendered after it.
C4_Witness ==
  \E i \in Refs :
    /\ Len(written[i]) = 2
    /\ written[i][1] = [cat |-> "class", val |-> "a"]
    /\ written[i][2].cat = "element"
    /\ written[i][2].val = "a"
    /\ stringify(heap, i).out = "a.a"

(***************************************************************************)
(* C5.  combine(A, t, B).stringify() is A.stringify() + " " + t + " " +    *)
(* B.stringify(), with nothing prepended or appended, whichever builder    *)
(* combine is invoked on.  The code appends to the receiver's value, so a  *)
(* receiver that is itself a combine result prepends its own string.       *)
(***************************************************************************)
C5_CombineRenders ==
  (last.op = "combine" /\ last.threw = "")
    => stringify(heap, last.ret).out =
         stringify(heap, last.selector1).out \o " " \o last.combinator \o " "
         \o stringify(heap, last.selector2).out

(***************************************************************************)
(* C6.  A successful fragment write returns a new builder and leaves every *)
(* existing builder, the receiver and the factory included, with the same  *)
(* fragments and the same stringify() output; builders derived from one    *)
(* prefix do not see each other's fragments.                               *)
(***************************************************************************)
C6_WriteReturnsNewBuilder ==
  [][(last'.op \in WriteOps /\ last'.threw = "")
       => /\ Len(heap') = Len(heap) + 1
          /\ last'.ret = Len(heap')
          /\ \A i \in Refs : /\ heap'[i] = heap[i]
                             /\ stringify(heap', i).out = stringify(heap, i).out]_vars

\* Two different builders were derived from the same prefix by one write each.
C6_Witness ==
  /\ last.op \in WriteOps
  /\ last.ret = 3
  /\ last.this = 1
  /\ Len(written[2]) = 1
  /\ written[2][1].cat \in WriteOps
  /\ heap[2] # heap[3]
  /\ heap[1] = Factory

(***************************************************************************)
(* C7.  Once a builder has a combined value, stringify() returns it        *)
(* verbatim ever after: a fragment write applied to that builder or to a   *)
(* builder derived from it yields a builder with the same stringify()      *)
(* output, to which no fragment has been added.                            *)
(***************************************************************************)
C7_CombinedValueIsFinal ==
  [][(last'.op \in WriteOps /\ last'.threw = "" /\ HasCombine(written[last'.this]))
       => /\ stringify(heap', last'.ret).out = stringify(heap, last'.this).out
          /\ stringify(heap', last'.ret).out = heap[last'.this].value[1]]_vars

\* A non-empty fragment was written on a combine result.
C7_Witness ==
  /\ last.op \in WriteOps
  /\ last.threw = ""
  /\ HasCombine(written[last.this])
  /\ written[last.ret][Len(written[last.ret])].val = "a"

(***************************************************************************)
(* C8.  stringify() is a pure read: it changes no fragment of any builder, *)
(* a second call returns the same string, and every write succeeds or      *)
(* fails afterwards exactly as it would have before.                       *)
(***************************************************************************)
C8_StringifyIsPureRead ==
  [][last'.op = "stringify"
       => /\ heap' = heap
          /\ last'.threw = ""
          /\ stringify(heap', last'.this).out = last'.out
          /\ \A v \in Values :
               /\ element(heap', last'.this, v).threw = element(heap, last'.this, v).threw
               /\ id(heap', last'.this, v).threw = id(heap, last'.this, v).threw
               /\ class(heap', last'.this, v).threw = class(heap, last'.this, v).threw
               /\ attr(heap', last'.this, v).threw = attr(heap, last'.this, v).threw
               /\ pseudoClass(heap', last'.this, v).threw = pseudoClass(heap, last'.this, v).threw
               /\ pseudoElement(heap', last'.this, v).threw = pseudoElement(heap, last'.this, v).threw]_vars

\* stringify was called on a builder with fragments and no combined value.
C8_Witness ==
  /\ last.op = "stringify"
  /\ last.out # ""
  /\ ~HasCombine(written[last.this])

(***************************************************************************)
(* C9.  combine never fails: for any two builders in any state and any     *)
(* token, legal combinator or not, it returns a builder and throws         *)
(* neither the cardinality error nor the order error.                      *)
(***************************************************************************)
C9_CombineNeverFails ==
  last.op = "combine" => (last.threw = "" /\ last.ret \in Refs /\ Truthy(heap[last.ret].value))

\* Two operands that both carry an element were combined with an illegal token.
C9_Witness ==
  /\ last.op = "combine"
  /\ last.combinator = "?"
  /\ "element" \in Cats(written[last.selector1])
  /\ "element" \in Cats(written[last.selector2])
  /\ last.ret = Len(heap)

(***************************************************************************)
(* C10.  A failed write has no effect: when a fragment write throws, no    *)
(* builder is returned or created and every builder keeps its fragments    *)
(* and its stringify() output, so the receiver still accepts the writes    *)
(* that are legal for its state.                                           *)
(***************************************************************************)
C10_FailedWriteHasNoEffect ==
  [][(last'.op \in WriteOps /\ last'.threw # "")
       => /\ last'.threw \in {countErrText, orderErrText}
          /\ last'.ret = 0
          /\ heap' = heap
          /\ written' = written]_vars

\* A write was refused with the cardinality error.
C10_Witness ==
  /\ last.op \in WriteOps
  /\ last.threw = countErrText
  /\ last.ret = 0

(***************************************************************************)
(* C11.  combine(A, t, B) leaves A, B and the builder it is invoked on     *)
(* unchanged: their fragments and stringify() output are what they were,   *)
(* and they accept exactly the same writes as before.                      *)
(***************************************************************************)
C11_CombineLeavesOperands ==
  [][last'.op = "combine"
       => /\ Len(heap') = Len(heap) + 1
          /\ last'.ret = Len(heap')
          /\ \A i \in Refs :
               /\ heap'[i] = heap[i]
               /\ stringify(heap', i).out = stringify(heap, i).out
               /\ \A v \in Values :
                    /\ element(heap', i, v).threw = element(heap, i, v).threw
                    /\ id(heap', i, v).threw = id(heap, i, v).threw
                    /\ class(heap', i, v).threw = class(heap, i, v).threw
                    /\ attr(heap', i, v).threw = attr(heap, i, v).threw
                    /\ pseudoClass(heap', i, v).threw = pseudoClass(heap, i, v).threw
                    /\ pseudoElement(heap', i, v).threw = pseudoElement(heap, i, v).threw]_vars

\* combine was invoked on a builder with fragments, with another builder as operand.
C11_Witness ==
  /\ last.op = "combine"
  /\ last.this = 2
  /\ last.selector1 = 2
  /\ last.selector2 = 1
  /\ Len(written[2]) = 1
  /\ written[2][1].cat = "id"
  /\ stringify(heap, 2).out = "#a"
  /\ last.ret = 3

(***************************************************************************)
(* C12.  The write operations fail in exactly these cases: element iff the *)
(* element or the id has been written; id iff the id, a class or the       *)
(* pseudo-element has; class iff an attribute has; attr iff a pseudo-class *)
(* has; pseudoClass iff the pseudo-element has; pseudoElement iff the      *)
(* pseudo-element has.  Every failure is the cardinality or the order      *)
(* error.  The code accepts element("a") after element("").                *)
(***************************************************************************)
ClaimedToFail(op, c) ==
  CASE op = "element" -> "element" \in c \/ "id" \in c
    [] op = "id" -> "id" \in c \/ "class" \in c \/ "pseudoElement" \in c
    [] op = "class" -> "attr" \in c
    [] op = "attr" -> "pseudoClass" \in c
    [] op = "pseudoClass" -> "pseudoElement" \in c
    [] op = "pseudoElement" -> "pseudoElement" \in c
    [] OTHER -> FALSE

C12_ExactFailureConditions ==
  last.op \in WriteOps
    => /\ (last.threw # "") <=> ClaimedToFail(last.op, Cats(written[last.this]))
       /\ last.threw \in {"", countErrText, orderErrText}

(***************************************************************************)
(* C13.  When a write breaks both rules the cardinality error wins:        *)
(* element on a builder that has an element and an id, and id on a builder *)
(* that has an id and a class or a pseudo-element, throw the cardinality   *)
(* error.  The code throws the order error for element("").id("a")         *)
(* followed by element("a").                                               *)
(***************************************************************************)
C13_CardinalityFirst ==
  /\ (last.op = "element" /\ {"element", "id"} \subseteq Cats(written[last.this]))
       => last.threw = countErrText
  /\ (/\ last.op = "id"
      /\ "id" \in Cats(written[last.this])
      /\ {"class", "pseudoElement"} \cap Cats(written[last.this]) # {})
       => last.threw = countErrText

(***************************************************************************)
(* C14.  Whether a category counts as written does not depend on the value *)
(* written: two builders on which the same categories have been written    *)
(* accept and refuse the same writes with the same errors, and a builder   *)
(* made by combine is treated as combined.  The code refuses element on    *)
(* element("a") and accepts it on element("").                             *)
(***************************************************************************)
Outcome(op, h, this, v) ==
  CASE op = "element" -> element(h, this, v).threw
    [] op = "id" -> id(h, this, v).threw
    [] op = "class" -> class(h, this, v).threw
    [] op = "attr" -> attr(h, this, v).threw
    [] op = "pseudoClass" -> pseudoClass(h, this, v).threw
    [] op = "pseudoElement" -> pseudoElement(h, this, v).threw

C14_ValueIndependent ==
  /\ \A i \in Refs, j \in Refs :
       Cats(written[i]) = Cats(written[j])
         => \A op \in WriteOps, v \in Values :
              Outcome(op, heap, i, v) = Outcome(op, heap, j, v)
  /\ \A i \in Refs :
       HasCombine(written[i]) => stringify(heap, i).out = heap[i].value[1]
====
